---------------------------- MODULE Spec2Model ----------------------------
(***************************************************************************)
(* vue-state-tree (index.esm.js): model(), the types library, the          *)
(* structural validator deepTypeCheck, the watch-path deriver              *)
(* getWatchProperties and the "mutex" mutation guard, together with the    *)
(* part of the Vue 2 runtime the library relies on: reactive setters that  *)
(* queue a watcher once per flush, and the flush that runs the queued      *)
(* watchers in the order they were registered.                             *)
(*                                                                         *)
(* A watcher callback that throws does not stop the flush: Vue hands the   *)
(* error of a user watcher to its error handler and runs the next watcher. *)
(* component._mutex is modelled as 0 while the guard is not installed.     *)
(* The "Got: ..." tail of the messages and types.model are not modelled.   *)
(*                                                                         *)
(* Spec is one model() call and the life of its instance; SpecTC is        *)
(* deepTypeCheck, SpecWP getWatchProperties and SpecU types.union, each    *)
(* on its own over bounded inputs; SpecShared is model() called more than  *)
(* once with mappings the caller keeps.                                    *)
(***************************************************************************)
EXTENDS Integers, Sequences, FiniteSets, TLC

VARIABLES
    production,   \* process.env.NODE_ENV === 'production', read by model()
    immutable,    \* modelOptions.immutable !== false
    schema,       \* storeOptions.schema (Falsy when none is given)
    data,         \* storeOptions.data, made reactive by new Vue(vm)
    phase,        \* "new" before model() ran, "live" after it returned,
                  \* "failed" after it threw; "input"/"checked" in SpecTC
    _mutex,       \* component._mutex
    inflight,     \* wrapped asynchronous calls entered and not yet landed
    watchProps,   \* the watch expressions model() derived from the schema
    seen,         \* per watch expression, its watchers' parsed path
                  \* (segments) and the value they saw last (value)
    queued,       \* watch expressions whose watchers are in Vue's queue
    log,          \* what the last step ran and raised, in order
    last,         \* the operation of the last step
    origin,       \* per watch expression: who assigned it last since the flush
    batch,        \* history of the current batch (since the last flush)
    wrapped,      \* SpecShared: the wrappers model() has layered over the
                  \* functions of a methods and a computed mapping that the
                  \* caller keeps and passes again
    instances     \* SpecShared: the instances model() has returned

vars == <<production, immutable, schema, data, phase, _mutex, inflight,
          watchProps, seen, queued, log, last, origin, batch, wrapped,
          instances>>

-----------------------------------------------------------------------------
(* Bounds of the model. *)
MaxMutex == 2
MaxInflight == 2
MaxLen == 2
MaxKeys == 3
MaxArgs == 2
MaxInstances == 2

-----------------------------------------------------------------------------
(* JavaScript values. *)
Undefined == [t |-> "undefined"]
Null == [t |-> "null"]
Str(s) == [t |-> "string", s |-> s]
Num(n) == [t |-> "number", n |-> n]
Bool(b) == [t |-> "boolean", b |-> b]
Obj(f) == [t |-> "object", f |-> f]
Arr(e) == [t |-> "array", e |-> e]
\* A Vue instance (_isVue is set, $options.name is its name).
Vm(name) == [t |-> "vm", name |-> name]

\* typeof v
typeOf(v) ==
    IF v.t \in {"null", "object", "array", "vm"} THEN "object" ELSE v.t

\* !v
falsyValue(v) ==
    \/ v.t \in {"undefined", "null"}
    \/ v = Str("")
    \/ v = Num(0)
    \/ v = Bool(FALSE)

\* v[key] for a value that is neither null nor undefined
Prop(v, key) ==
    IF v.t = "object" /\ key \in DOMAIN v.f THEN v.f[key] ELSE Undefined

\* v[key] throws a TypeError for null and undefined
canRead(v) == v.t \notin {"null", "undefined"}

\* Vue's isObject: obj !== null && typeof obj === 'object'
vueIsObject(v) == v.t \in {"object", "array", "vm"}

-----------------------------------------------------------------------------
(* Schema nodes: a predicate, a mapping of keys (in insertion order) to    *)
(* nodes, an array holding zero or one node, or a falsy value.             *)
Falsy == [k |-> "falsy"]
Pred(p) == [k |-> "pred", p |-> p]
ObjS(keys, sub) == [k |-> "object", keys |-> keys, sub |-> sub]
ArrS(e) == [k |-> "array", e |-> e]

\* the predicates of `types`
TBoolean == [n |-> "boolean"]
TNumber == [n |-> "number"]
TString == [n |-> "string"]
TEnum(lits) == [n |-> "enum", lits |-> lits]
TMaybeNull(inner) == [n |-> "maybeNull", inner |-> inner]
TMaybeNullSchema(node) == [n |-> "maybeNullSchema", node |-> node]
TUnion(args) == [n |-> "union", args |-> args]

-----------------------------------------------------------------------------
(* Paths: ['<name>', 'key', 1, ...]; NoPath is a path argument that was    *)
(* not passed (undefined).                                                 *)
Key(s) == [key |-> s]
\* the index of an array element, counted from 0
Idx(i) == [idx |-> i]
NoPath == <<[nopath |-> TRUE]>>
isNumber(el) == "idx" \in DOMAIN el

RECURSIVE stringifyFrom(_, _, _)
stringifyFrom(path, i, acc) ==
    IF i > Len(path) THEN acc
    ELSE stringifyFrom(path, i + 1,
             IF isNumber(path[i])
             THEN acc \o "[" \o ToString(path[i].idx) \o "]"
             ELSE acc \o "." \o path[i].key)

stringifyPath(path) == stringifyFrom(path, 2, path[1].key)

(* What a call throws or returns.  Thrown errors carry their kind (the     *)
(* fixed part of the message) and the stringified path of the message;     *)
(* the serialized "Got:" value of the message is not modelled.             *)
Ok == [kind |-> "ok", path |-> <<>>, at |-> ""]
\* a TypeError of the JavaScript runtime itself; its message has no path
Native == [kind |-> "native TypeError", path |-> <<>>, at |-> ""]
Thrown(kind, path) ==
    IF path = NoPath THEN Native
    ELSE [kind |-> kind, path |-> path, at |-> stringifyPath(path)]

Returns(b) == [throws |-> FALSE, val |-> b, err |-> Ok]
Throws(e) == [throws |-> TRUE, val |-> FALSE, err |-> e]

-----------------------------------------------------------------------------
(* types and deepTypeCheck. *)
RECURSIVE applyValidator(_, _, _)
RECURSIVE someFrom(_, _, _)
RECURSIVE deepTypeCheck(_, _, _)
RECURSIVE checkElements(_, _, _, _)
RECURSIVE checkKeys(_, _, _, _)

\* value && !Array.isArray(value) && typeof value === 'object'
isObject(value) == value.t \in {"object", "vm"}

\* isObject(schema[key]) for a schema node
isObjectNode(node) == node.k = "object"

\* validator(value, path) for a predicate of `types`
applyValidator(p, v, path) ==
    CASE p.n = "boolean" -> Returns(typeOf(v) = "boolean")
      [] p.n = "number" -> Returns(typeOf(v) = "number")
      [] p.n = "string" -> Returns(typeOf(v) = "string")
      [] p.n = "enum" -> Returns(v \in p.lits)
      [] p.n = "maybeNull" ->
            IF v = Null THEN Returns(TRUE)
            ELSE applyValidator(p.inner, v, NoPath)
      [] p.n = "maybeNullSchema" ->
            IF v = Null THEN Returns(TRUE)
            ELSE LET r == deepTypeCheck(v, p.node, path)
                 IN  IF r = Ok THEN Returns(TRUE) ELSE Throws(r)
      [] p.n = "union" -> someFrom(p.args, 1, v)

\* args.some(arg => arg(v)), from the i-th argument on
someFrom(args, i, v) ==
    IF i > Len(args) THEN Returns(FALSE)
    ELSE LET r == applyValidator(args[i], v, NoPath)
         IN  IF r.throws \/ r.val THEN r ELSE someFrom(args, i + 1, v)

\* typeCheck with the test of the validator's result negated
typeCheck_negated(value, validator, path) ==
    LET r == applyValidator(validator, value, path)
    IN  IF r.throws THEN r.err
        ELSE IF r.val THEN Thrown("check failed", path)
        ELSE Ok

typeCheck(value, validator, path) ==
    LET r == applyValidator(validator, value, path)
    IN  IF r.throws THEN r.err
        ELSE IF ~r.val THEN Thrown("check failed", path)
        ELSE Ok

\* dataStore.forEach((value, idx) => ...), from the i-th element on
checkElements(dataStore, node, path, i) ==
    IF i > Len(dataStore.e) THEN Ok
    ELSE IF path = NoPath THEN Native
    ELSE LET here == Append(path, Idx(i - 1))
             r == IF node.k = "pred"
                  THEN typeCheck(dataStore.e[i], node.p, here)
                  ELSE deepTypeCheck(dataStore.e[i], node, here)
         IN  IF r # Ok THEN r
             ELSE checkElements(dataStore, node, path, i + 1)

\* Object.keys(schema).forEach(key => ...), from the i-th key on
checkKeys(dataStore, node, path, i) ==
    IF i > Len(node.keys) THEN Ok
    ELSE IF ~canRead(dataStore) \/ path = NoPath THEN Native
    ELSE LET key == node.keys[i]
             here == Append(path, Key(key))
         IN  IF isObjectNode(node.sub[key]) /\ ~isObject(Prop(dataStore, key))
             THEN Thrown("expected object", here)
             ELSE LET r == deepTypeCheck(Prop(dataStore, key),
                                         node.sub[key], here)
                  IN  IF r # Ok THEN r
                      ELSE checkKeys(dataStore, node, path, i + 1)

\* deepTypeCheck without the test of line 146 for undefined data
deepTypeCheck_noUndefinedTest(dataStore, node, path) ==
    IF node.k = "falsy" THEN Thrown("invalid schema", path)
    ELSE IF node.k = "array"
    THEN IF dataStore.t # "array" THEN Thrown("expected array", path)
         ELSE IF node.e # <<>> /\ node.e[1].k \in {"object", "array", "pred"}
         THEN checkElements(dataStore, node.e[1], path, 1)
         ELSE Ok
    ELSE IF node.k = "object" THEN checkKeys(dataStore, node, path, 1)
    ELSE typeCheck(dataStore, node.p, path)

deepTypeCheck(dataStore, node, path) ==
    IF node.k = "falsy" THEN Thrown("invalid schema", path)
    ELSE IF dataStore = Undefined THEN Thrown("undefined data", path)
    ELSE IF node.k = "array"
    THEN IF dataStore.t # "array" THEN Thrown("expected array", path)
         ELSE IF node.e # <<>> /\ node.e[1].k \in {"object", "array", "pred"}
         THEN checkElements(dataStore, node.e[1], path, 1)
         ELSE Ok
    ELSE IF node.k = "object" THEN checkKeys(dataStore, node, path, 1)
    ELSE typeCheck(dataStore, node.p, path)

-----------------------------------------------------------------------------
(* getWatchProperties, and the two readers of its dot-joined expressions:  *)
(* lodash get on the schema and the getter of a Vue watcher on the data.   *)
RECURSIVE joinFrom(_, _, _)
joinFrom(keys, i, acc) ==
    IF i > Len(keys) THEN acc
    ELSE joinFrom(keys, i + 1, acc \o "." \o keys[i])

\* keys.join('.')
joinDots(keys) == IF keys = <<>> THEN "" ELSE joinFrom(keys, 2, keys[1])

\* Object.entries(node).reduce(getReducerForPath(path), acc), from the i-th
\* entry on.  A falsy node is taken as undefined (typeof is not 'object').
RECURSIVE reduceEntries(_, _, _, _)
reduceEntries(node, path, i, acc) ==
    IF i > Len(node.keys) THEN acc
    ELSE LET key == node.keys[i]
             val == node.sub[key]
         IN  reduceEntries(node, path, i + 1,
                 IF val.k = "object"
                 THEN reduceEntries(val, Append(path, key), 1, acc)
                 ELSE Append(acc, joinDots(Append(path, key))))

\* getWatchProperties without the recursion into nested objects: the keys
\* of the root
getWatchProperties_rootKeys(node) == node.keys

getWatchProperties(node) == reduceEntries(node, <<>>, 1, <<>>)

\* the key sequences that lead to a node of the schema tree
RECURSIVE keyPaths(_, _)
keyPaths(node, path) ==
    {path} \cup
    IF node.k = "object"
    THEN UNION {keyPaths(node.sub[key], Append(path, key)) :
                    key \in DOMAIN node.sub}
    ELSE {}

\* expression.split('.'): the key sequence that joins to the expression
\* (the keys of the schemas hold no dot)
split(expression, node) ==
    CHOOSE segments \in keyPaths(node, <<>>) : joinDots(segments) = expression

\* lodash get(object, segments): undefined where the walk leaves the tree
RECURSIVE getNode(_, _, _)
getNode(node, segments, i) ==
    IF i > Len(segments) THEN node
    ELSE IF node.k = "object" /\ segments[i] \in DOMAIN node.sub
    THEN getNode(node.sub[segments[i]], segments, i + 1)
    ELSE Falsy

get(node, expression) == getNode(node, split(expression, node), 1)

\* the getter Vue's parsePath builds: if (!obj) return; obj = obj[segment]
RECURSIVE walk(_, _, _)
walk(obj, segments, i) ==
    IF i > Len(segments) THEN obj
    ELSE IF falsyValue(obj) THEN Undefined
    ELSE walk(Prop(obj, segments[i]), segments, i + 1)

\* what new Watcher(vm, expression, cb) keeps: the parsed path, and the
\* value its getter read
Watcher(obj, expression, node) ==
    [segments |-> split(expression, node),
     value |-> walk(obj, split(expression, node), 1)]

-----------------------------------------------------------------------------
(* The model under study: the README's programmer, with a field that the   *)
(* schema does not name.                                                   *)
ModelName == "programmer"
Label == Key("<" \o ModelName \o ">")

ProgrammerSchema ==
    ObjS(<<"firstName", "lastName">>,
         [firstName |-> Pred(TString), lastName |-> Pred(TString)])

Fields == {"firstName", "lastName", "nickname"}
Vals == {Str("Ann"), Null}

Programmer(first, lastN, nick) ==
    Obj([firstName |-> first, lastName |-> lastN, nickname |-> nick])

\* storeOptions.data as passed to model()
InitialData ==
    {Programmer(first, Str("Ann"), Str("Ann")) : first \in {Str("Joe"), Null}}
        \cup {Undefined, Vm("programmer")}

\* what the body of a method assigns: one field, as setFirstName does
MethodBodies == {key :> value : key \in Fields, value \in Vals}

\* what the body of a computed setter assigns: both names, as the setter
\* of fullName does
SetterBodies ==
    {("firstName" :> first) @@ ("lastName" :> lastN) :
        first \in Vals, lastN \in Vals}

-----------------------------------------------------------------------------
(* model(): lines 26-29, 36 and 85 decide what is installed. *)
hasSchema == schema # Falsy

\* lines 26-29
derivedWatchProps ==
    IF ~production /\ hasSchema THEN getWatchProperties(schema) ELSE <<>>

\* line 36 without the test of modelOptions.immutable
GuardInstalled_anyOption == ~production

GuardInstalled == immutable /\ ~production

\* line 85 without the test of NODE_ENV
ValidatorInstalled_anyEnv == hasSchema

ValidatorInstalled == ~production /\ hasSchema


\* one record per callback run (or call made) by the last step
Entry(cb, prop, value, err) ==
    [cb |-> cb, prop |-> prop, value |-> value, err |-> err,
     origin |-> IF prop \in DOMAIN origin THEN origin[prop] ELSE {},
     before |-> _mutex, calls |-> batch.calls, clean |-> batch.clean,
     base |-> _mutex - batch.calls,
     directs |-> \E p \in DOMAIN origin : "direct" \in origin[p]]

Failure(kind) == [kind |-> kind, path |-> <<>>, at |-> ""]

\* calls: the wrapped calls entered since the last flush; clean: since the
\* counter was last 0 with nothing in flight, every change of a watched
\* field was made by a wrapped call and every wrapped call changed one
NoBatch == [calls |-> 0, clean |-> TRUE]

\* the functions of the caller's mappings as written: no wrapper yet
NoWrappers == [methods |-> 0, computed |-> 0]

Init ==
    /\ production \in BOOLEAN
    /\ immutable \in BOOLEAN
    /\ schema \in {ProgrammerSchema, Falsy}
    /\ data \in InitialData
    /\ phase = "new"
    /\ _mutex = 0
    /\ inflight = 0
    /\ watchProps = <<>>
    /\ seen = <<>>
    /\ queued = {}
    /\ log = <<>>
    /\ last = "none"
    /\ origin = <<>>
    /\ batch = NoBatch
    /\ wrapped = NoWrappers
    /\ instances = <<>>

\* lines 5-10: what the preconditions of model() throw, or Ok
preconditions ==
    IF falsyValue(data) THEN Failure("Undefined model data.")
    ELSE IF data.t = "vm"
    THEN Failure("Attempting to create a model from a model")
    ELSE Ok

\* lines 85-88: what the pre-flight check throws, or Ok
preflight ==
    IF ValidatorInstalled THEN deepTypeCheck(data, schema, <<Label>>) ELSE Ok

\* model(storeOptions, modelOptions): the instance is handed out unless
\* a precondition or the pre-flight check throws
Construct ==
    /\ phase = "new"
    /\ last' = "model"
    /\ _mutex' = 0
    /\ IF preconditions # Ok
       THEN /\ phase' = "failed"
            /\ log' = <<Entry("model", "", data, preconditions)>>
            /\ UNCHANGED <<watchProps, seen, origin>>
       ELSE /\ watchProps' = derivedWatchProps
            /\ origin' = [p \in {derivedWatchProps[i] :
                                     i \in 1..Len(derivedWatchProps)} |-> {}]
            /\ seen' = [p \in DOMAIN origin' |-> Watcher(data, p, schema)]
            /\ phase' = IF preflight = Ok THEN "live" ELSE "failed"
            /\ log' = IF preflight = Ok THEN <<>>
                      ELSE <<Entry("model", "", data, preflight)>>
    /\ UNCHANGED <<wrapped, instances>>
    /\ UNCHANGED <<production, immutable, schema, data, inflight, queued,
                   batch>>

-----------------------------------------------------------------------------
(* Assignments to the reactive data.  A reactive setter returns early when *)
(* the new value is the old one; otherwise it notifies the watchers that   *)
(* read the field, and each is queued unless it is queued already.         *)
changedKeys(asg) == {key \in DOMAIN asg : asg[key] # Prop(data, key)}

\* the watchers notified were model() to watch the data deeply, which
\* the comment of lines 19-25 rules out: every one, by any change
notified_deepWatch(asg) ==
    IF changedKeys(asg) # {} THEN DOMAIN seen ELSE {}

notified(asg) ==
    {p \in DOMAIN seen : seen[p].segments[1] \in changedKeys(asg)}

assigned(asg) ==
    Obj([key \in DOMAIN data.f |->
            IF key \in DOMAIN asg THEN asg[key] ELSE data.f[key]])

\* this.a = x; this.b = y; ... by `who`: "method", "setter" or, from
\* outside both, "direct"
Assign(asg, who) ==
    /\ data' = assigned(asg)
    /\ queued' = queued \cup notified(asg)
    /\ origin' = [p \in DOMAIN origin |->
                     IF p \in notified(asg) THEN origin[p] \cup {who}
                     ELSE origin[p]]

\* lines 51 and 59: this._mutex += 1, in the wrappers the guard installs
Enter ==
    IF GuardInstalled
    THEN /\ _mutex < MaxMutex
         /\ _mutex' = _mutex + 1
    ELSE UNCHANGED _mutex

\* the history of the batch after a wrapped call that changes `asg`
afterCall(asg, entered) ==
    IF ~GuardInstalled THEN batch
    ELSE [batch EXCEPT
            !.calls = IF entered THEN @ + 1 ELSE @,
            !.clean = @ /\ notified(asg) # {}]

\* lines 57-62: a wrapped method whose body makes the assignments asg
Method(asg) ==
    /\ phase = "live"
    /\ Enter
    /\ Assign(asg, "method")
    /\ batch' = afterCall(asg, TRUE)
    /\ log' = <<>>
    /\ last' = "call"
    /\ UNCHANGED <<wrapped, instances>>
    /\ UNCHANGED <<production, immutable, schema, phase, inflight,
                   watchProps, seen>>

\* lines 38-56: a wrapped computed setter whose body makes the
\* assignments asg
Setter(asg) ==
    /\ phase = "live"
    /\ Enter
    /\ Assign(asg, "setter")
    /\ batch' = afterCall(asg, TRUE)
    /\ log' = <<>>
    /\ last' = "call"
    /\ UNCHANGED <<wrapped, instances>>
    /\ UNCHANGED <<production, immutable, schema, phase, inflight,
                   watchProps, seen>>

\* lines 57-62 for an asynchronous method: the wrapper has incremented
\* and the body is suspended before it assigns anything
AsyncEnter ==
    /\ phase = "live"
    /\ inflight < MaxInflight
    /\ Enter
    /\ inflight' = inflight + 1
    /\ batch' = IF GuardInstalled THEN [batch EXCEPT !.calls = @ + 1]
                ELSE batch
    /\ log' = <<>>
    /\ last' = "call"
    /\ UNCHANGED <<wrapped, instances>>
    /\ UNCHANGED <<production, immutable, schema, data, phase, watchProps,
                   seen, queued, origin>>

\* the suspended body resumes and makes the assignments asg
AsyncLand(asg) ==
    /\ phase = "live"
    /\ inflight > 0
    /\ inflight' = inflight - 1
    /\ Assign(asg, "method")
    /\ batch' = afterCall(asg, FALSE)
    /\ log' = <<>>
    /\ last' = "call"
    /\ UNCHANGED <<wrapped, instances>>
    /\ UNCHANGED <<production, immutable, schema, phase, _mutex, watchProps,
                   seen>>

\* component[key] = value from outside any method or setter
DirectAssign(key, value) ==
    /\ phase = "live"
    /\ Assign(key :> value, "direct")
    /\ batch' = IF GuardInstalled /\ notified(key :> value) # {}
                THEN [batch EXCEPT !.clean = FALSE]
                ELSE batch
    /\ log' = <<>>
    /\ last' = "assign"
    /\ UNCHANGED <<wrapped, instances>>
    /\ UNCHANGED <<production, immutable, schema, phase, _mutex, inflight,
                   watchProps, seen>>

-----------------------------------------------------------------------------
(* The flush of Vue's watcher queue: the queued watchers run in the order  *)
(* of their registration, the guard's (line 77) before the validator's     *)
(* (lines 89-96); a watcher calls back when its value is not the one it    *)
(* saw last, or is an object.                                              *)
current(p) == walk(data, seen[p].segments, 1)

fires(p) ==
    p \in queued /\ (current(p) # seen[p].value \/ vueIsObject(current(p)))

\* watchCallback without its test for 0
watchCallback_noZeroCheck(mutex) ==
    IF mutex < 0
    THEN [mutex |-> mutex, err |-> Failure("mutex is off")]
    ELSE [mutex |-> mutex - 1, err |-> Ok]

\* lines 64-73: the counter after watchCallback, and what it throws
watchCallback(mutex) ==
    IF mutex = 0
    THEN [mutex |-> mutex, err |-> Failure("store is immutable")]
    ELSE IF mutex < 0
    THEN [mutex |-> mutex, err |-> Failure("mutex is off")]
    ELSE [mutex |-> mutex - 1, err |-> Ok]

\* the guard's watchers from the i-th watch expression on
RECURSIVE runGuards(_, _, _)
runGuards(i, mutex, entries) ==
    IF i > Len(watchProps) THEN [mutex |-> mutex, entries |-> entries]
    ELSE IF ~fires(watchProps[i]) THEN runGuards(i + 1, mutex, entries)
    ELSE LET r == watchCallback(mutex)
             e == [Entry("guard", watchProps[i], current(watchProps[i]),
                         r.err) EXCEPT !.before = mutex]
         IN  runGuards(i + 1, r.mutex, Append(entries, e))

\* the validator's callback checking against the whole schema
revalidate_wholeSchema(value, propExpression) ==
    deepTypeCheck(value, schema, <<Label, Key(propExpression)>>)

\* lines 90-95: the validator's callback for a watch expression
revalidate(value, propExpression) ==
    deepTypeCheck(value, get(schema, propExpression),
                  <<Label, Key(propExpression)>>)

\* the validator's watchers from the i-th watch expression on
RECURSIVE runValidators(_, _)
runValidators(i, entries) ==
    IF i > Len(watchProps) THEN entries
    ELSE IF ~fires(watchProps[i]) THEN runValidators(i + 1, entries)
    ELSE runValidators(i + 1,
             Append(entries,
                    Entry("validator", watchProps[i], current(watchProps[i]),
                          revalidate(current(watchProps[i]), watchProps[i]))))

\* the flush, were a callback that throws to put back the value its
\* watcher saw last
Flush_restoring ==
    /\ phase = "live"
    /\ queued # {}
    /\ LET guards == IF GuardInstalled THEN runGuards(1, _mutex, <<>>)
                     ELSE [mutex |-> _mutex, entries |-> <<>>]
           entries == guards.entries \o runValidators(1, <<>>)
           raised == {entries[i].prop :
                         i \in {k \in DOMAIN entries : entries[k].err # Ok}}
       IN  /\ _mutex' = guards.mutex
           /\ log' = entries
           /\ batch' = [calls |-> 0,
                        clean |-> IF guards.mutex = 0 /\ inflight = 0
                                  THEN TRUE ELSE batch.clean]
           /\ data' = Obj([key \in DOMAIN data.f |->
                              IF key \in raised THEN seen[key].value
                              ELSE data.f[key]])
    /\ seen' = [p \in DOMAIN seen |->
                   IF fires(p) THEN [seen[p] EXCEPT !.value = current(p)]
                   ELSE seen[p]]
    /\ origin' = [p \in DOMAIN origin |-> {}]
    /\ queued' = {}
    /\ last' = "flush"
    /\ UNCHANGED <<wrapped, instances>>
    /\ UNCHANGED <<production, immutable, schema, phase, inflight,
                   watchProps>>

Flush ==
    /\ phase = "live"
    /\ queued # {}
    /\ LET guards == IF GuardInstalled THEN runGuards(1, _mutex, <<>>)
                     ELSE [mutex |-> _mutex, entries |-> <<>>]
       IN  /\ _mutex' = guards.mutex
           /\ log' = guards.entries \o runValidators(1, <<>>)
           /\ batch' = [calls |-> 0,
                        clean |-> IF guards.mutex = 0 /\ inflight = 0
                                  THEN TRUE ELSE batch.clean]
    /\ seen' = [p \in DOMAIN seen |->
                   IF fires(p) THEN [seen[p] EXCEPT !.value = current(p)]
                   ELSE seen[p]]
    /\ origin' = [p \in DOMAIN origin |-> {}]
    /\ queued' = {}
    /\ last' = "flush"
    /\ UNCHANGED <<wrapped, instances>>
    /\ UNCHANGED <<production, immutable, schema, data, phase, inflight,
                   watchProps>>

Next ==
    \/ Construct
    \/ \E asg \in MethodBodies : Method(asg)
    \/ \E asg \in SetterBodies : Setter(asg)
    \/ AsyncEnter
    \/ \E asg \in MethodBodies : AsyncLand(asg)
    \/ \E key \in Fields, value \in Vals : DirectAssign(key, value)
    \/ Flush

Spec == Init /\ [][Next]_vars

-----------------------------------------------------------------------------
(* deepTypeCheck on its own: schemas shaped as the README's, and every     *)
(* value that follows a schema's shape down to some node and holds, there, *)
(* a value of the right or of a wrong kind.                                *)
StringOf(keys) == [key \in keys |-> Pred(TString)]

SchemaSet ==
    { ObjS(<<"id">>, [id |-> Pred(TNumber)]),
      ObjS(<<"a", "c", "e">>,
           [a |-> ObjS(<<"b">>, StringOf({"b"})),
            c |-> ArrS(<<ObjS(<<"d">>, StringOf({"d"}))>>),
            e |-> Pred(TString)]),
      ObjS(<<"tags", "created">>,
           [tags |-> ArrS(<<Pred(TString)>>),
            created |-> Pred(TMaybeNullSchema(
                            ObjS(<<"at", "by">>, StringOf({"at", "by"}))))]),
      ObjS(<<"email", "language", "list">>,
           [email |-> Pred(TMaybeNull(TString)),
            language |-> Pred(TEnum({Str("C"), Str("B")})),
            list |-> ArrS(<<>>)]),
      ObjS(<<"size", "flag">>,
           [size |-> Pred(TUnion(<<TString, TNumber>>)),
            flag |-> Pred(TBoolean)]) }

Primitives == {Undefined, Null, Str("C"), Num(1), Bool(TRUE)}

\* the sequences over a set, up to MaxLen long
RECURSIVE seqsUpTo(_, _)
seqsUpTo(set, n) ==
    IF n = 0 THEN {<<>>}
    ELSE LET shorter == seqsUpTo(set, n - 1)
         IN  shorter \cup {Append(q, x) : q \in {r \in shorter : Len(r) = n - 1},
                                          x \in set}

RECURSIVE valuesFor(_)
RECURSIVE objectsFor(_, _)
\* the objects that give each of the first i keys of the node a value
objectsFor(node, i) ==
    IF i = 0 THEN {<<>>}
    ELSE {f @@ (node.keys[i] :> v) :
             f \in objectsFor(node, i - 1),
             v \in valuesFor(node.sub[node.keys[i]])}

valuesFor(node) ==
    CASE node.k = "object" ->
            {Undefined, Null, Str("C"), Arr(<<>>)}
                \cup {Obj(f) : f \in objectsFor(node, Len(node.keys))}
      [] node.k = "array" ->
            {Undefined, Null, Obj(<<>>)}
                \cup {Arr(q) : q \in seqsUpTo(IF node.e = <<>> THEN Primitives
                                              ELSE valuesFor(node.e[1]),
                                              MaxLen)}
      [] node.k = "pred" /\ node.p.n = "maybeNullSchema" ->
            valuesFor(node.p.node)
      [] OTHER -> Primitives

\* the root is an object, as the data of a Vue instance is
InitTC ==
    /\ schema \in SchemaSet
    /\ data \in {v \in valuesFor(schema) : v.t = "object"}
    /\ phase = "input"
    /\ production = FALSE
    /\ immutable = TRUE
    /\ _mutex = 0
    /\ inflight = 0
    /\ watchProps = <<>>
    /\ seen = <<>>
    /\ queued = {}
    /\ log = <<>>
    /\ last = "none"
    /\ origin = <<>>
    /\ batch = NoBatch
    /\ wrapped = NoWrappers
    /\ instances = <<>>

\* deepTypeCheck(data, schema, ['<name>'])
TypeCheckStep ==
    /\ phase = "input"
    /\ phase' = "checked"
    /\ log' = <<Entry("deepTypeCheck", "", data,
                      deepTypeCheck(data, schema, <<Label>>))>>
    /\ last' = "deepTypeCheck"
    /\ UNCHANGED <<wrapped, instances>>
    /\ UNCHANGED <<production, immutable, schema, data, _mutex, inflight,
                   watchProps, seen, queued, origin, batch>>

NextTC == TypeCheckStep

SpecTC == InitTC /\ [][NextTC]_vars

-----------------------------------------------------------------------------
(* getWatchProperties on its own: every schema tree of up to MaxKeys keys  *)
(* in all, whose keys come from TreeKeys and whose leaves are a predicate  *)
(* or an array of objects, and the schemas of SchemaSet.                   *)
TreeKeys == {"a", "c", "e"}
TreeLeaves == {Pred(TString), ArrS(<<ObjS(<<"d">>, StringOf({"d"}))>>)}

\* {} and {key: child, ...rest}
emptyNode == ObjS(<<>>, <<>>)
withEntry(key, child, rest) ==
    ObjS(<<key>> \o rest.keys, (key :> child) @@ rest.sub)

\* the object nodes that hold exactly n keys in all, those of their nested
\* objects included, the keys of the root drawn from `keys`
RECURSIVE treesWith(_, _)
treesWith(n, keys) ==
    IF n = 0 THEN {emptyNode}
    ELSE UNION {
            {withEntry(key, child, rest) :
                child \in IF m = 0 THEN TreeLeaves \cup {emptyNode}
                          ELSE treesWith(m, TreeKeys),
                rest \in treesWith(n - 1 - m, keys \ {key})} :
            key \in keys, m \in 0..(n - 1)}

SchemaTrees == UNION {treesWith(n, TreeKeys) : n \in 0..MaxKeys}

InitWP ==
    /\ schema \in SchemaTrees \cup SchemaSet
    /\ data = Obj(<<>>)
    /\ phase = "input"
    /\ production = FALSE
    /\ immutable = TRUE
    /\ _mutex = 0
    /\ inflight = 0
    /\ watchProps = <<>>
    /\ seen = <<>>
    /\ queued = {}
    /\ log = <<>>
    /\ last = "none"
    /\ origin = <<>>
    /\ batch = NoBatch
    /\ wrapped = NoWrappers
    /\ instances = <<>>

\* watchProps = getWatchProperties(storeOptions.schema)
WatchStep ==
    /\ phase = "input"
    /\ phase' = "derived"
    /\ watchProps' = getWatchProperties(schema)
    /\ last' = "getWatchProperties"
    /\ UNCHANGED <<wrapped, instances>>
    /\ UNCHANGED <<production, immutable, schema, data, _mutex, inflight,
                   seen, queued, log, origin, batch>>

NextWP == WatchStep

SpecWP == InitWP /\ [][NextWP]_vars

-----------------------------------------------------------------------------
(* types.union on its own: every list of up to MaxArgs predicates of the   *)
(* library, applied to a value in the order given and in another order.    *)
UpdatedSchema == ObjS(<<"at", "by">>, StringOf({"at", "by"}))

PredicateSet ==
    { TBoolean, TNumber, TString, TEnum({Str("C"), Str("B")}),
      TMaybeNull(TNumber), TMaybeNullSchema(UpdatedSchema),
      TUnion(<<TString, TNumber>>),
      TUnion(<<TMaybeNullSchema(UpdatedSchema), TBoolean>>) }

UnionValues ==
    Primitives \cup {Str("A"), Obj(<<>>),
                     Obj([at |-> Str("C"), by |-> Str("C")])}

\* the orderings of a list
Orderings(args) ==
    {[i \in DOMAIN args |-> args[f[i]]] :
        f \in {g \in [DOMAIN args -> DOMAIN args] :
                  \A i \in DOMAIN args, j \in DOMAIN args :
                      g[i] = g[j] => i = j}}

InitU ==
    /\ schema \in {Pred(TUnion(args)) : args \in seqsUpTo(PredicateSet, MaxArgs)}
    /\ data \in UnionValues
    /\ phase = "input"
    /\ production = FALSE
    /\ immutable = TRUE
    /\ _mutex = 0
    /\ inflight = 0
    /\ watchProps = <<>>
    /\ seen = <<>>
    /\ queued = {}
    /\ log = <<>>
    /\ last = "none"
    /\ origin = <<>>
    /\ batch = NoBatch
    /\ wrapped = NoWrappers
    /\ instances = <<>>

\* t.union(...args)(v): what the call returns or throws
Applied(args, v) ==
    [cb |-> "union", args |-> args, value |-> v,
     out |-> applyValidator(TUnion(args), v, NoPath)]

\* t.union(...args)(data), then t.union(...ordering)(data)
UnionStep(ordering) ==
    /\ phase = "input"
    /\ phase' = "applied"
    /\ log' = <<Applied(schema.p.args, data), Applied(ordering, data)>>
    /\ last' = "union"
    /\ UNCHANGED <<wrapped, instances>>
    /\ UNCHANGED <<production, immutable, schema, data, _mutex, inflight,
                   watchProps, seen, queued, origin, batch>>

NextU == \E ordering \in Orderings(schema.p.args) : UnionStep(ordering)

SpecU == InitU /\ [][NextU]_vars

-----------------------------------------------------------------------------
(* model() called more than once by a caller that keeps a methods mapping  *)
(* and a computed mapping and may pass them again.  Lines 12-18 take the   *)
(* caller's mappings as they are; line 41 assigns the wrapper to the set   *)
(* member of the caller's computed entry and line 58 to the key of the     *)
(* caller's methods mapping; new Vue(vm) binds to the instance the         *)
(* functions the mappings hold at that moment.                             *)
NaN == [t |-> "number", nan |-> TRUE]

\* this._mutex += 1
plusOne(mutex) ==
    IF mutex.t = "number" /\ "n" \in DOMAIN mutex THEN Num(mutex.n + 1)
    ELSE NaN

\* a call of a function under `layers` wrappers, each of lines 58-61 (or
\* 41-54): the counter as the original runs, and what the call returns
\* when the original returns `result`
RECURSIVE callWrapped(_, _, _)
callWrapped(layers, mutex, result) ==
    IF layers = 0 THEN [atBody |-> mutex, result |-> result]
    ELSE callWrapped(layers - 1, plusOne(mutex), result)

\* lines 38-62: the layers over a function after model() went over its
\* mapping
afterWrapping(layers, guard) == IF guard THEN layers + 1 ELSE layers

InitShared ==
    /\ production \in BOOLEAN
    /\ immutable = TRUE
    /\ schema = Falsy
    /\ data = Programmer(Str("Joe"), Str("Ann"), Str("Ann"))
    /\ phase = "shared"
    /\ _mutex = 0
    /\ inflight = 0
    /\ watchProps = <<>>
    /\ seen = <<>>
    /\ queued = {}
    /\ log = <<>>
    /\ last = "none"
    /\ origin = <<>>
    /\ batch = NoBatch
    /\ wrapped = NoWrappers
    /\ instances = <<>>

\* model({data, methods, computed}, {immutable: imm}), where methods and
\* computed are the mappings the caller keeps (keptMethods, keptComputed)
\* or mappings written for this call
ModelCall(imm, keptMethods, keptComputed) ==
    /\ phase = "shared"
    /\ Len(instances) < MaxInstances
    /\ immutable' = imm
    /\ production' = production
    /\ LET methods == afterWrapping(IF keptMethods THEN wrapped.methods
                                    ELSE 0, GuardInstalled')
           computed == afterWrapping(IF keptComputed THEN wrapped.computed
                                     ELSE 0, GuardInstalled')
       IN  /\ wrapped' = [methods |-> IF keptMethods THEN methods
                                      ELSE wrapped.methods,
                          computed |-> IF keptComputed THEN computed
                                       ELSE wrapped.computed]
           /\ instances' =
                 Append(instances,
                        [guard |-> GuardInstalled',
                         methods |-> methods,
                         computed |-> computed,
                         _mutex |-> IF GuardInstalled' THEN Num(0)
                                    ELSE Undefined])
    /\ log' = <<>>
    /\ last' = "model"
    /\ UNCHANGED <<schema, data, phase, _mutex, inflight, watchProps, seen,
                   queued, origin, batch>>

\* instance[key](...) for a method, or instance[key] = ... for a computed
\* setter, whose original function returns `result`
Invoke(i, kind, result) ==
    /\ phase = "shared"
    /\ LET call == callWrapped(instances[i][kind], instances[i]._mutex,
                               result)
       IN  /\ "n" \in DOMAIN call.atBody => call.atBody.n <= MaxMutex
           /\ instances' = [instances EXCEPT ![i]._mutex = call.atBody]
           /\ log' = <<[cb |-> kind, instance |-> i,
                        guard |-> instances[i].guard,
                        before |-> instances[i]._mutex,
                        atBody |-> call.atBody,
                        original |-> result,
                        result |-> call.result]>>
    /\ last' = "call"
    /\ UNCHANGED <<production, immutable, schema, data, phase, _mutex,
                   inflight, watchProps, seen, queued, origin, batch,
                   wrapped>>

NextShared ==
    \/ \E imm \in BOOLEAN, keptMethods \in BOOLEAN, keptComputed \in BOOLEAN :
          ModelCall(imm, keptMethods, keptComputed)
    \/ \E i \in DOMAIN instances, kind \in {"methods", "computed"},
           result \in Vals \cup {Undefined} :
          Invoke(i, kind, result)

SpecShared == InitShared /\ [][NextShared]_vars

-----------------------------------------------------------------------------
(* What the claims speak of. *)
Steps == DOMAIN log
GuardRuns == {i \in Steps : log[i].cb = "guard"}
ValidatorRuns == {i \in Steps : log[i].cb = "validator"}
RaisedImmutable(i) == log[i].err.kind = "store is immutable"

IsPrefix(short, long) ==
    /\ Len(short) <= Len(long)
    /\ \A i \in 1..Len(short) : short[i] = long[i]

\* a value matches a schema node: every schema key is present, every leaf
\* satisfies its predicate, every object node has an object value, every
\* array node an array value whose elements match the element schema
RECURSIVE Matches(_, _)
RECURSIVE Accepts(_, _)
Accepts(p, v) ==
    CASE p.n = "boolean" -> v.t = "boolean"
      [] p.n = "number" -> v.t = "number"
      [] p.n = "string" -> v.t = "string"
      [] p.n = "enum" -> v \in p.lits
      [] p.n = "maybeNull" -> v = Null \/ Accepts(p.inner, v)
      [] p.n = "maybeNullSchema" -> v = Null \/ Matches(v, p.node)
      [] p.n = "union" -> \E i \in 1..Len(p.args) : Accepts(p.args[i], v)

Matches(v, node) ==
    CASE node.k = "pred" -> v # Undefined /\ Accepts(node.p, v)
      [] node.k = "object" ->
            /\ v.t = "object"
            /\ \A key \in DOMAIN node.sub : Matches(Prop(v, key), node.sub[key])
      [] node.k = "array" ->
            /\ v.t = "array"
            /\ node.e # <<>> =>
                  \A i \in 1..Len(v.e) : Matches(v.e[i], node.e[1])
      [] OTHER -> FALSE

\* the path of the first location, depth first in schema-key order and
\* element order, whose value does not match; <<>> when all match
RECURSIVE FirstMismatch(_, _, _)
RECURSIVE FirstAmongKeys(_, _, _, _)
RECURSIVE FirstAmongElements(_, _, _, _)
FirstMismatch(v, node, path) ==
    CASE node.k = "pred" /\ node.p.n = "maybeNullSchema" /\ v # Null
                         /\ v # Undefined ->
            FirstMismatch(v, node.p.node, path)
      [] node.k = "pred" -> IF Matches(v, node) THEN <<>> ELSE path
      [] node.k = "object" ->
            IF v.t # "object" THEN path ELSE FirstAmongKeys(v, node, path, 1)
      [] node.k = "array" ->
            IF v.t # "array" THEN path
            ELSE IF node.e = <<>> THEN <<>>
            ELSE FirstAmongElements(v, node.e[1], path, 1)
      [] OTHER -> path

FirstAmongKeys(v, node, path, i) ==
    IF i > Len(node.keys) THEN <<>>
    ELSE LET found == FirstMismatch(Prop(v, node.keys[i]),
                                    node.sub[node.keys[i]],
                                    Append(path, Key(node.keys[i])))
         IN  IF found # <<>> THEN found
             ELSE FirstAmongKeys(v, node, path, i + 1)

FirstAmongElements(v, node, path, i) ==
    IF i > Len(v.e) THEN <<>>
    ELSE LET found == FirstMismatch(v.e[i], node, Append(path, Idx(i - 1)))
         IN  IF found # <<>> THEN found
             ELSE FirstAmongElements(v, node, path, i + 1)

\* the value a callback ran on fails the schema at its watch expression
Invalid(i) == ~Matches(log[i].value, get(schema, log[i].prop))

CheckFailedAt(i) ==
    /\ log[i].err.kind = "check failed"
    /\ log[i].err.at = "<" \o ModelName \o ">." \o log[i].prop

-----------------------------------------------------------------------------
(* C1: with the guard installed, a direct assignment that changes an       *)
(* observed field raises the 'store is immutable' violation when its       *)
(* change notification is processed, in every reachable state.             *)
C1_DirectAssignmentRaises ==
    \A i \in GuardRuns : log[i].origin = {"direct"} => RaisedImmutable(i)

(* C1, amended: it raises the violation when the counter is 0 as the       *)
(* notification is processed; when a wrapped call has left a credit (the   *)
(* call is in flight, or its own change was not processed or never came),  *)
(* the notification consumes that credit and nothing is raised.            *)
C1_DirectAssignmentRaisesAtZero ==
    \A i \in GuardRuns :
        log[i].origin = {"direct"} =>
            /\ RaisedImmutable(i) <=> log[i].before = 0
            /\ ~RaisedImmutable(i) => log[i].err = Ok

C1_Witness ==
    \E i \in GuardRuns :
        /\ log[i].origin = {"direct"}
        /\ log[i].before = 0
        /\ RaisedImmutable(i)
        /\ last = "flush"

(* C2: starting from counter 0, changes made to observed fields from       *)
(* inside a wrapped method or a wrapped computed setter never raise the    *)
(* immutability violation, however many observed fields one call changes.  *)
C2_WrappedChangesNeverRaise ==
    \A i \in GuardRuns : log[i].clean => ~RaisedImmutable(i)

(* C3: once the notifications of wrapped calls that each changed an        *)
(* observed field are processed and none is in flight, the counter is 0    *)
(* again, under every interleaving of entries, changes and flushes, and    *)
(* it is never negative.                                                   *)
C3_CounterReturnsToZero ==
    /\ _mutex >= 0
    /\ (last = "flush" /\ batch.clean /\ inflight = 0) => _mutex = 0

(* C4: the counter is 0 right after construction and never negative, and   *)
(* the 'mutex is off' branch of watchCallback is never taken.              *)
C4_CounterNeverNegative ==
    /\ _mutex >= 0
    /\ last = "model" => _mutex = 0
    /\ \A i \in Steps : log[i].err.kind # "mutex is off"

C4_Witness ==
    /\ last = "flush"
    /\ _mutex = 0
    /\ \E i \in GuardRuns : log[i].before = 0
    /\ \E i \in GuardRuns : log[i].before = 1

C6_ProductionNeverRaises ==
    production =>
        /\ \A i \in Steps :
              /\ log[i].cb = "model"
              /\ log[i].err.kind \in {"Undefined model data.",
                    "Attempting to create a model from a model"}
        /\ (last = "model" /\ preconditions = Ok) => phase = "live"
        /\ watchProps = <<>>
        /\ queued = {}
        /\ _mutex = 0

C6_Witness ==
    /\ production
    /\ hasSchema
    /\ phase = "live"
    /\ last = "assign"
    /\ ~Matches(data, schema)

(* C7: with immutable set to false outside production only the guard is    *)
(* disabled: no call touches a counter, no guard callback runs, a direct   *)
(* assignment never raises the immutability violation, while the           *)
(* pre-flight check and the re-validation of every observed change are     *)
(* still made and raise on invalid values.                                 *)
C7_OnlyGuardDisabled ==
    (~production /\ ~immutable) =>
        /\ _mutex = 0
        /\ GuardRuns = {}
        /\ \A i \in Steps : ~RaisedImmutable(i)
        /\ \A i \in ValidatorRuns :
              IF Invalid(i) THEN CheckFailedAt(i) ELSE log[i].err = Ok
        /\ (hasSchema /\ last = "flush") =>
              \A q \in DOMAIN seen :
                  /\ seen[q].value = current(q)
                  /\ (~Matches(current(q), get(schema, q))
                          /\ \E i \in Steps : log[i].prop = q) =>
                        \E i \in ValidatorRuns :
                            log[i].prop = q /\ CheckFailedAt(i)
        /\ (hasSchema /\ last = "model" /\ preconditions = Ok) =>
              (phase = "failed" <=> ~Matches(data, schema))

C7_Witness ==
    /\ ~production
    /\ ~immutable
    /\ \E i \in ValidatorRuns :
          log[i].origin = {"direct"} /\ Invalid(i) /\ CheckFailedAt(i)

(* C8: a data field with no key in the schema is unchecked and freely      *)
(* mutable: assigning to it directly, in any state, raises nothing,        *)
(* notifies no watcher and leaves the counter unchanged.                   *)
SchemaKeys == IF hasSchema THEN DOMAIN schema.sub ELSE {}

C8_UnlistedFieldIsFree ==
    [][\A key \in Fields \ SchemaKeys : \A value \in Vals :
           DirectAssign(key, value) =>
               /\ _mutex' = _mutex
               /\ queued' = queued
               /\ origin' = origin
               /\ log' = <<>>]_vars

C8_Witness ==
    /\ last = "assign"
    /\ GuardInstalled
    /\ hasSchema
    /\ Prop(data, "nickname") = Null
    /\ queued = {}
    /\ _mutex = 0

(* C9: for every schema/data pair with a mismatch, deepTypeCheck raises    *)
(* one error, for the first mismatch in depth-first, schema-key order      *)
(* (array elements in index order), and its message holds the stringified  *)
(* path of that location.                                                  *)
C9_FirstMismatchReported ==
    (phase = "checked" /\ ~Matches(data, schema)) =>
        /\ log[1].err.kind \in {"undefined data", "expected array",
                                "expected object", "check failed"}
        /\ IsPrefix(FirstMismatch(data, schema, <<Label>>), log[1].err.path)
        /\ log[1].err.at = stringifyPath(log[1].err.path)

-----------------------------------------------------------------------------
\* the key sequences of the predicate nodes and array nodes that are
\* reachable from the root through object nodes only
LeafPaths(node) ==
    {p \in keyPaths(node, <<>>) : getNode(node, p, 1).k # "object"}

\* the position of a key among the keys of an object node
Position(node, key) == CHOOSE i \in 1..Len(node.keys) : node.keys[i] = key

\* p comes before q in the depth-first walk of the tree in key order
RECURSIVE ComesBefore(_, _, _)
ComesBefore(node, p, q) ==
    IF p = <<>> \/ q = <<>> THEN FALSE
    ELSE IF p[1] = q[1]
    THEN ComesBefore(node.sub[p[1]], Tail(p), Tail(q))
    ELSE Position(node, p[1]) < Position(node, q[1])

C12_UnionIsOrderIndependentOr ==
    phase = "applied" =>
        /\ \A i \in Steps :
              log[i].out =
                  Returns(\E k \in DOMAIN log[i].args :
                              Accepts(log[i].args[k], log[i].value))
        /\ log[1].out = log[2].out

-----------------------------------------------------------------------------
\* the data value and the schema node that a path of an error leads to,
\* from the i-th element of the path on
RECURSIVE ValueAt(_, _, _)
ValueAt(v, path, i) ==
    IF i > Len(path) THEN v
    ELSE IF isNumber(path[i]) THEN ValueAt(v.e[path[i].idx + 1], path, i + 1)
    ELSE ValueAt(Prop(v, path[i].key), path, i + 1)

RECURSIVE NodeAt(_, _, _)
NodeAt(node, path, i) ==
    IF i > Len(path) THEN node
    ELSE IF isNumber(path[i]) THEN NodeAt(node.e[1], path, i + 1)
    ELSE IF node.k = "pred" THEN NodeAt(node.p.node.sub[path[i].key], path, i + 1)
    ELSE NodeAt(node.sub[path[i].key], path, i + 1)

\* the first location that does not match is a schema key whose data value
\* is undefined
FirstMismatchIsUndefined ==
    /\ phase = "checked"
    /\ Len(FirstMismatch(data, schema, <<Label>>)) > 1
    /\ ~isNumber(FirstMismatch(data, schema, <<Label>>)[
                     Len(FirstMismatch(data, schema, <<Label>>))])
    /\ ValueAt(data, FirstMismatch(data, schema, <<Label>>), 2) = Undefined

(* C13: whenever the data value for a schema key is undefined, validation  *)
(* raises the 'undefined data property at path' error for that field's     *)
(* path, whatever the kind of the schema node at that key (predicate,      *)
(* object node or array node), including for a field missing from an       *)
(* element of a schema-typed array.                                        *)
C13_UndefinedDataRaised ==
    FirstMismatchIsUndefined =>
        log[1].err = Thrown("undefined data",
                            FirstMismatch(data, schema, <<Label>>))

(* C13, amended: deepTypeCheck raises for that field's path 'undefined     *)
(* data property at path' when the schema node at the key is a predicate   *)
(* or an array node and, by the test of line 170 that precedes the         *)
(* recursion, 'expected object for data property at path' when it is an    *)
(* object node.                                                            *)
C13_UndefinedDataRaisedUnlessObject ==
    FirstMismatchIsUndefined =>
        log[1].err =
            Thrown(IF NodeAt(schema, FirstMismatch(data, schema, <<Label>>),
                             2).k = "object"
                   THEN "expected object" ELSE "undefined data",
                   FirstMismatch(data, schema, <<Label>>))

C13_Witness ==
    /\ FirstMismatchIsUndefined
    /\ log[1].err.kind = "undefined data"
    /\ log[1].err.at = "<programmer>.c[1].d"

(* C14: every invocation of a wrapped method or wrapped computed setter    *)
(* increases that instance's counter by exactly 1 before the original      *)
(* function runs and returns the original's result unchanged, for every    *)
(* instance produced by model(), including when the same methods or        *)
(* computed mappings are passed to more than one model() call.             *)
C14_WrapperIncrementsByOne ==
    \A i \in Steps :
        (log[i].cb \in {"methods", "computed"} /\ log[i].guard) =>
            /\ log[i].atBody = Num(log[i].before.n + 1)
            /\ log[i].result = log[i].original

(* C15: a wrapped call whose change never lands (it changes no observed    *)
(* field, or never completes) leaks one credit: the counter of the         *)
(* instance is one higher than before the call and stays so in every       *)
(* later state until some change notification is processed, since only     *)
(* the watch callback decrements the counter and only the wrappers         *)
(* increment it.  (The instances of SpecShared observe no field: no        *)
(* notification is ever processed.)                                        *)
C15_UnlandedCallLeaksOneCredit ==
    [][\A i \in DOMAIN instances :
           instances[i].guard =>
               instances'[i]._mutex =
                   IF last' = "call" /\ log'[1].instance = i
                   THEN Num(instances[i]._mutex.n + 1)
                   ELSE instances[i]._mutex]_vars

-----------------------------------------------------------------------------
\* the counter as the i-th callback of the flush returned or threw: the
\* counter the next guard callback found, or the counter after the flush
CounterAfter(entries, i, mutex) ==
    IF i + 1 \in DOMAIN entries /\ entries[i + 1].cb = "guard"
    THEN entries[i + 1].before
    ELSE mutex

(* C16: raising never rolls back a change: after an immutability           *)
(* violation or a post-construction type-check error is raised for a       *)
(* change to an observed field, the field still holds the newly assigned   *)
(* value, and the raise itself does not alter the counter (a rejected      *)
(* unguarded change leaves it at 0).                                       *)
C16_RaisingNeverRollsBack ==
    [][last' = "flush" =>
          \A i \in DOMAIN log' :
              log'[i].err # Ok =>
                  /\ log'[i].value = current(log'[i].prop)
                  /\ walk(data', seen[log'[i].prop].segments, 1)
                        = current(log'[i].prop)
                  /\ log'[i].cb = "guard" =>
                        /\ log'[i].before = 0
                        /\ CounterAfter(log', i, _mutex') = 0
                  /\ log'[i].cb = "validator" =>
                        _mutex' = _mutex
                            - Cardinality({j \in DOMAIN log' :
                                              /\ log'[j].cb = "guard"
                                              /\ log'[j].err = Ok})]_vars

C16_Witness ==
    /\ last = "flush"
    /\ _mutex = 0
    /\ Prop(data, "firstName") = Null
    /\ \E i \in GuardRuns :
          /\ RaisedImmutable(i)
          /\ log[i].prop = "firstName"
          /\ log[i].value = Null
    /\ \E j \in ValidatorRuns :
          /\ CheckFailedAt(j)
          /\ log[j].prop = "firstName"

=============================================================================
